---- MODULE Spec2Model ----
(***************************************************************************)
(* The RAG chat server: the HTTP handlers of main.ts over RAGService,      *)
(* DatabaseService and FileUploadService.  Every handler is a sequence of  *)
(* steps separated by the awaits of its code; handlers of different        *)
(* requests interleave at those awaits.  The embedding library behind      *)
(* ragApplication (addLoader, query) is modelled at the call sites: a load *)
(* step, one store write per chunk, a retrieval and a generation, each of  *)
(* which may fail.                                                         *)
(***************************************************************************)
EXTENDS Integers, Sequences, FiniteSets, TLC

VARIABLES
    phase,           \* "boot" | "serving" | "exited"  (initializeApp, process.exit)
    ragApplication,  \* RAGService.ragApplication: NoApp, or the inode its store has open
    dbFile,          \* the inode at appConfig.database.path, or NoFile
    inodes,          \* store files ever created: [table, rows]; an unlinked one lives on
    uploads,         \* the uploads directory: the set of [name, ts] (ts is the mtime)
    task,            \* the request handlers in flight, each at an await of its code
    resp,            \* the last response sent: [kind, result, ctx, items, html]
    nreq,            \* requests accepted so far
    now,             \* Date.now(), in minutes
    chat             \* appConfig.chat: [chunkSize, chunkOverlap], read once at load

vars == <<phase, ragApplication, dbFile, inodes, uploads, task, resp, nreq, now, chat>>

\* ---------------------------------------------------------------- bounds
MaxTasks == 2
MaxRequests == 2
MaxChunks == 2
MaxTime == 2
MaxQueryLen == 2

\* ------------------------------------------------------------ configuration
\* appConfig.uploads.maxFileSize, in MB
maxFileSize == 10
\* appConfig.uploads.maxFileAge, in minutes
maxFileAge == 1
allowedTypes == {"application/pdf", "text/markdown", "text/plain"}
\* the defaults of appConfig.chat
DefaultChunkSize == 400
DefaultChunkOverlap == 50

\* ------------------------------------------------------------------ inputs
Tasks == 1..MaxTasks
NoApp == 0
NoFile == 0
ContentTypes == allowedTypes \cup {"image/png"}
FileSizes == {maxFileSize, maxFileSize + 1}
FileNames == {"", "notes.md"}
UrlInputs == {"", "not a url", "http://a/1"}
Chars == {" ", "q"}
Queries == UNION {[1..n -> Chars] : n \in 0..MaxQueryLen}

\* what Number(process.env.X) can be: 0 stands for every falsy result (the
\* variable unset, empty, not a number, or zero)
EnvNumbers == {0, 50, 400}

NoSrc == [kind |-> "none", name |-> "", ts |-> 0]
IdleTask ==
    [kind |-> "none", pc |-> "idle", src |-> NoSrc, app |-> NoApp, n |-> 0,
     written |-> 0, ok |-> FALSE, ctx |-> FALSE]
NoResponse ==
    [kind |-> "none", result |-> "", ctx |-> FALSE, items |-> <<>>, html |-> <<>>]
EmptyFile == [table |-> FALSE, rows |-> {}]

\* ---------------------------------------------------------------- helpers
\* new URL(u): throws on a string that is no URL
IsURL(u) == u \in {"http://a/1"}
hostname(u) == IF IsURL(u) THEN "a" ELSE ""

\* String.prototype.trim on a sequence of characters
RECURSIVE TrimStart(_)
TrimStart(s) ==
    IF s = <<>> THEN s
    ELSE IF Head(s) = " " THEN TrimStart(Tail(s)) ELSE s
RECURSIVE TrimEnd(_)
TrimEnd(s) ==
    IF s = <<>> THEN s
    ELSE IF s[Len(s)] = " " THEN TrimEnd(SubSeq(s, 1, Len(s) - 1)) ELSE s
trim(s) == TrimEnd(TrimStart(s))

\* a handler slot that a new request may take: the lowest free one
Free(t) ==
    /\ task[t].pc = "idle"
    /\ \A u \in Tasks : u < t => task[u].pc # "idle"
Accepting == phase = "serving" /\ nreq < MaxRequests

\* what a handler does next: it goes on to an await (its task record), or it
\* answers (a response)
IsResponse(x) == "result" \in DOMAIN x
Response(kind, result) == [NoResponse EXCEPT !.kind = kind, !.result = result]
Await(tk) == tk

\* the handler of slot t takes the step x
TaskStep(t, x) ==
    IF IsResponse(x)
    THEN task' = [task EXCEPT ![t] = IdleTask] /\ resp' = x
    ELSE task' = [task EXCEPT ![t] = x] /\ UNCHANGED resp

\* The rows of a file once the handler of slot t has answered: they are no
\* longer the rows of a request in flight.
Settled(file, t) ==
    [file EXCEPT !.rows = {[r EXCEPT !.by = IF r.by = t THEN 0 ELSE r.by] : r \in @}]
SettledIf(fs, t, x) ==
    IF IsResponse(x) THEN [i \in DOMAIN fs |-> Settled(fs[i], t)] ELSE fs

\* ------------------------------------------------------------- the store
\* Opening the store file creates it when it is absent (bun:sqlite's
\* new Database(path) and LibSqlDb({path}) both open read-write-create).
OpenedFile == IF dbFile = NoFile THEN Len(inodes) + 1 ELSE dbFile
OpenedInodes == IF dbFile = NoFile THEN Append(inodes, EmptyFile) ELSE inodes

\* RAGService.initialize succeeding: the store is opened, its vectors table
\* is created when missing, and ragApplication is replaced.
InitializeOk ==
    /\ dbFile' = OpenedFile
    /\ inodes' = [OpenedInodes EXCEPT ![OpenedFile].table = TRUE]
    /\ ragApplication' = OpenedFile

\* RAGService.initialize throwing: ragApplication keeps its value; the build
\* may or may not have opened the store before it failed.
InitializeFail ==
    /\ ragApplication' = ragApplication
    /\ \/ UNCHANGED <<dbFile, inodes>>
       \/ /\ dbFile' = OpenedFile
          /\ inodes' = [OpenedInodes EXCEPT ![OpenedFile].table = TRUE]

\* Number(process.env.X) || d
NumberOr(n, d) == IF n = 0 THEN d ELSE n

\* appConfig.chat for the values of CHUNK_SIZE and CHUNK_OVERLAP
ChatConfig(size, overlap) ==
    [chunkSize |-> NumberOr(size, DefaultChunkSize),
     chunkOverlap |-> NumberOr(overlap, DefaultChunkOverlap)]

\* the process before initializeApp, whatever its configuration
Boot ==
    /\ phase = "boot"
    /\ ragApplication = NoApp
    /\ \/ dbFile = NoFile /\ inodes = <<>>
       \/ dbFile = 1 /\ inodes = <<EmptyFile>>
    /\ uploads = {}
    /\ task = [t \in Tasks |-> IdleTask]
    /\ resp = NoResponse
    /\ nreq = 0
    /\ now = 0

\* started with CHUNK_SIZE and CHUNK_OVERLAP unset
Init == Boot /\ chat = ChatConfig(0, 0)

\* started with any values of CHUNK_SIZE and CHUNK_OVERLAP
InitEnv == Boot /\ \E size \in EnvNumbers, overlap \in EnvNumbers : chat = ChatConfig(size, overlap)

\* initializeApp: ragService.initialize(), then the server starts to listen;
\* a failure ends the process.
InitializeApp ==
    /\ phase = "boot"
    /\ \/ InitializeOk /\ phase' = "serving"
       \/ InitializeFail /\ phase' = "exited"
    /\ UNCHANGED <<uploads, task, resp, nreq, now, chat>>

\* ------------------------------------------------------------ ingestion
\* A record of the vectors table: its source column and chunk index, and the
\* handler slot of the request writing it while that request is in flight.
Row(t) == [source |-> task[t].src, idx |-> task[t].written + 1, by |-> t]

\* The library's insert of a chunk: it inserts the record of (source, chunk
\* index) or replaces the one there.
Put(file, row) ==
    [file EXCEPT !.rows =
        {r \in @ : ~(r.source = row.source /\ r.idx = row.idx)} \cup {row}]

WebSrc(u) == [kind |-> "web", name |-> u, ts |-> 0]

\* POST /add-source up to the await of ragApplication.addLoader: the body
\* schema, the URL checks of the route, and the guard of addWebSource.
AddSourceStart(u) ==
    IF u = "" THEN Response("web", "VALIDATION")
    ELSE IF ~IsURL(u) THEN Response("web", "Invalid URL format")
    ELSE IF ragApplication = NoApp
         THEN Response("web", "RAG application not initialized")
    ELSE Await([IdleTask EXCEPT !.kind = "web", !.pc = "load", !.src = WebSrc(u),
                                !.app = ragApplication])

AddSource(t, u) ==
    /\ Accepting /\ Free(t)
    /\ TaskStep(t, AddSourceStart(u))
    /\ nreq' = nreq + 1
    /\ UNCHANGED <<phase, ragApplication, dbFile, inodes, uploads, now, chat>>

\* validateFile without its check of the content type
validateFileAnyType(name, type, size) ==
    IF size > maxFileSize THEN "File size exceeds maximum allowed size"
    ELSE IF name = "" THEN "File name is required"
    ELSE ""

\* FileUploadService.validateFile: "" when the file is valid, else the error
validateFile(name, type, size) ==
    IF size > maxFileSize THEN "File size exceeds maximum allowed size"
    ELSE IF type \notin allowedTypes THEN "File type is not supported"
    ELSE IF name = "" THEN "File name is required"
    ELSE ""

\* FileUploadService.generateSafeFilename: the name with Date.now() put
\* before its extension; the path is the source identifier of the file.
generateSafeFilename(name, ts) == [kind |-> "file", name |-> name, ts |-> ts]

\* RAGService.createLoader
createLoader(type) ==
    CASE type = "application/pdf" -> "PdfLoader"
      [] type \in {"text/markdown", "text/plain"} -> "MarkdownLoader"
      [] OTHER -> "Unsupported file type"

\* RAGService.addFileSource up to its first await, for a file already saved:
\* the guard throws before the try; a throw of createLoader lands in the
\* catch, which unlinks the upload.
AddFileSourceStart(f, type) ==
    IF ragApplication = NoApp
    THEN Response("file", "RAG application not initialized")
    ELSE IF createLoader(type) = "Unsupported file type"
    THEN Await([IdleTask EXCEPT !.kind = "file", !.pc = "unlink", !.src = f,
                     !.app = ragApplication, !.ok = FALSE])
    ELSE Await([IdleTask EXCEPT !.kind = "file", !.pc = "load", !.src = f,
                     !.app = ragApplication])

\* POST /add-file: saveFile (validation, then the write to the uploads
\* directory, which may fail), then addFileSource.
AddFile(t, name, type, size) ==
    /\ Accepting /\ Free(t)
    /\ nreq' = nreq + 1
    /\ IF validateFile(name, type, size) # ""
       THEN /\ TaskStep(t, Response("file", validateFile(name, type, size)))
            /\ UNCHANGED uploads
       ELSE \/ /\ TaskStep(t, Response("file", "Failed to save uploaded file"))
               /\ UNCHANGED uploads
            \/ /\ uploads' = uploads \cup {generateSafeFilename(name, now)}
               /\ TaskStep(t, AddFileSourceStart(generateSafeFilename(name, now), type))
    /\ UNCHANGED <<phase, ragApplication, dbFile, inodes, now, chat>>

\* a catch block that calls addLoader again instead of giving up
IngestRetried(tk) == Await([tk EXCEPT !.pc = "load", !.n = 0, !.written = 0])

\* The catch blocks of addWebSource and addFileSource: the web handler
\* answers with the failure; the file handler first unlinks the upload.
IngestFailed(tk) ==
    IF tk.kind = "web"
    THEN Response("web", "Failed to load web source")
    ELSE Await([tk EXCEPT !.pc = "unlink", !.ok = FALSE])

\* addLoader resolved: the web handler answers; the file handler unlinks.
IngestSucceeded(tk) ==
    IF tk.kind = "web"
    THEN Response("web", "ok")
    ELSE Await([tk EXCEPT !.pc = "unlink", !.ok = TRUE])

\* addLoader, first part: the loader fetches the source and chunks it.
Load(t) ==
    /\ task[t].pc = "load"
    /\ \/ /\ \E n \in 1..MaxChunks :
                TaskStep(t, Await([task[t] EXCEPT !.pc = "embed", !.n = n]))
          /\ UNCHANGED inodes
       \/ /\ TaskStep(t, IngestFailed(task[t]))
          /\ inodes' = SettledIf(inodes, t, IngestFailed(task[t]))
    /\ UNCHANGED <<phase, ragApplication, dbFile, uploads, nreq, now, chat>>

\* The handler after one more chunk is stored
AfterWrite(tk) ==
    IF tk.written + 1 = tk.n
    THEN IngestSucceeded([tk EXCEPT !.written = @ + 1])
    ELSE Await([tk EXCEPT !.written = @ + 1])

\* addLoader, per chunk: embed it and insert it into the store that the
\* application had open when addLoader was called.
Embed(t) ==
    /\ task[t].pc = "embed"
    /\ \/ /\ inodes' = SettledIf(
                 [inodes EXCEPT ![task[t].app] = Put(@, Row(t))], t, AfterWrite(task[t]))
          /\ TaskStep(t, AfterWrite(task[t]))
       \/ /\ TaskStep(t, IngestFailed(task[t]))
          /\ inodes' = SettledIf(inodes, t, IngestFailed(task[t]))
    /\ UNCHANGED <<phase, ragApplication, dbFile, uploads, nreq, now, chat>>

\* The response of addFileSource once its unlink has settled
FileOutcome(tk) ==
    Response("file", IF tk.ok THEN "ok" ELSE "Failed to load file")

\* the inner catch of the unlink rethrowing what it caught
UnlinkRethrown(tk, deleted) ==
    IF deleted THEN FileOutcome(tk)
    ELSE Response("file", IF tk.ok THEN "Failed to load file" ELSE "Could not delete file")

\* addFileSource once fs.unlink has settled: the inner try/catch logs a
\* failure of the unlink and goes on to the outcome of the load.
UnlinkSettled(tk, deleted) == FileOutcome(tk)

\* fs.unlink(filePath) in addFileSource: it removes the upload, or it fails
\* (always so when the file is gone) and the failure is only logged.
Unlink(t) ==
    /\ task[t].pc = "unlink"
    /\ \/ /\ task[t].src \in uploads
          /\ uploads' = uploads \ {task[t].src}
          /\ TaskStep(t, UnlinkSettled(task[t], TRUE))
       \/ /\ UNCHANGED uploads
          /\ TaskStep(t, UnlinkSettled(task[t], FALSE))
    /\ inodes' = SettledIf(inodes, t, FileOutcome(task[t]))
    /\ UNCHANGED <<phase, ragApplication, dbFile, nreq, now, chat>>

\* FileUploadService.cleanupOldFiles(maxFileAge), run by the interval timer
OldFiles == {f \in uploads : now - f.ts > maxFileAge}
CleanupOldFiles ==
    /\ phase = "serving"
    /\ OldFiles # {}
    /\ uploads' = uploads \ OldFiles
    /\ UNCHANGED <<phase, ragApplication, dbFile, inodes, task, resp, nreq, now, chat>>

\* ------------------------------------------------------------------ clear
\* POST /clear-sources up to the await of initialize: fs.unlink of the store
\* file removes the path (the open store keeps its inode) or fails, and a
\* failure is only logged.
ClearStart(t) ==
    /\ Accepting /\ Free(t)
    /\ \/ dbFile # NoFile /\ dbFile' = NoFile
       \/ UNCHANGED dbFile
    /\ TaskStep(t, Await([IdleTask EXCEPT !.kind = "clear", !.pc = "reinit"]))
    /\ nreq' = nreq + 1
    /\ UNCHANGED <<phase, ragApplication, inodes, uploads, now, chat>>

\* clearSources after the unlink: initialize() builds a new application
ClearInit(t) ==
    /\ task[t].pc = "reinit"
    /\ \/ InitializeOk /\ TaskStep(t, Response("clear", "ok"))
       \/ InitializeFail /\ TaskStep(t, Response("clear", "Failed to clear sources"))
    /\ UNCHANGED <<phase, uploads, nreq, now, chat>>

\* ------------------------------------------------------------------- chat
\* the route testing the length of the question without trimming it
ChatStartUntrimmed(q) ==
    IF Len(q) < 1 THEN Response("chat", "VALIDATION")
    ELSE IF ragApplication = NoApp
         THEN Response("chat", "RAG service is not initialized")
    ELSE Await([IdleTask EXCEPT !.kind = "chat", !.pc = "retrieve",
                                !.app = ragApplication])

\* POST /chat up to the await of ragApplication.query: the body schema
\* (minLength 1), the checks of the route, and the guard of RAGService.query.
ChatStart(q) ==
    IF Len(q) < 1 THEN Response("chat", "VALIDATION")
    ELSE IF trim(q) = <<>> THEN Response("chat", "Query cannot be empty")
    ELSE IF ragApplication = NoApp
         THEN Response("chat", "RAG service is not initialized")
    ELSE Await([IdleTask EXCEPT !.kind = "chat", !.pc = "retrieve",
                                !.app = ragApplication])

Chat(t, q) ==
    /\ Accepting /\ Free(t)
    /\ TaskStep(t, ChatStart(q))
    /\ nreq' = nreq + 1
    /\ UNCHANGED <<phase, ragApplication, dbFile, inodes, uploads, now, chat>>

\* ragApplication.query, first part: the question is embedded and the
\* nearest chunks are read from the store of the application.
Retrieve(t) ==
    /\ task[t].pc = "retrieve"
    /\ \/ TaskStep(t, Await([task[t] EXCEPT !.pc = "generate",
                                 !.ctx = inodes[task[t].app].rows # {}]))
       \/ TaskStep(t, Response("chat", "Failed to process query"))
    /\ UNCHANGED <<phase, ragApplication, dbFile, inodes, uploads, nreq, now, chat>>

\* The answer of the route: formatResponse's text in the assistant message,
\* the same whether or not any chunk was retrieved.
Answer(tk) == [Response("chat", "answer") EXCEPT !.ctx = tk.ctx]

\* ragApplication.query, second part: the model answers from the retrieved
\* chunks, however many.
Generate(t) ==
    /\ task[t].pc = "generate"
    /\ \/ TaskStep(t, Answer(task[t]))
       \/ TaskStep(t, Response("chat", "Failed to process query"))
    /\ UNCHANGED <<phase, ragApplication, dbFile, inodes, uploads, nreq, now, chat>>

\* ---------------------------------------------------------- DatabaseService
\* SELECT without DISTINCT: one value per row
Undistinct(s) == s

\* SELECT DISTINCT: each value once, in the order of its first row
RECURSIVE Distinct(_)
Distinct(s) ==
    IF s = <<>> THEN <<>>
    ELSE LET d == Distinct(SubSeq(s, 1, Len(s) - 1))
         IN  IF \E i \in 1..Len(d) : d[i] = s[Len(s)] THEN d
             ELSE Append(d, s[Len(s)])

\* the rows of a table in the order a scan yields them
RECURSIVE Scan(_)
Scan(rows) ==
    IF rows = {} THEN <<>>
    ELSE LET r == CHOOSE x \in rows : TRUE IN <<r>> \o Scan(rows \ {r})

SourceColumn(rows) == [i \in 1..Cardinality(rows) |-> Scan(rows)[i].source]

\* DatabaseService.formatSource
formatSource(source) ==
    IF IsURL(source.name)
    THEN [source |-> source, displayName |-> hostname(source.name), type |-> "web"]
    ELSE [source |-> source, displayName |-> source.name,
          type |-> CASE source.name = "notes.pdf" -> "pdf"
                     [] source.name = "notes.md" -> "markdown"
                     [] source.name = "notes.txt" -> "text"
                     [] OTHER -> "unknown"]

\* DatabaseService.getSources on the file it has opened: the query throws
\* when the file has no vectors table, and the catch answers [].
getSources(file) ==
    IF ~file.table THEN <<>>
    ELSE LET d == Distinct(SourceColumn(file.rows))
         IN  [i \in 1..Len(d) |-> formatSource(d[i])]

\* DatabaseService.getSourcesHTML: one line per item, or the notice
getSourcesHTML(items) ==
    IF Len(items) = 0 THEN <<"No sources added yet">>
    ELSE [i \in 1..Len(items) |-> items[i].displayName]

\* GET /sources: new Database(dbPath) opens the store file, creating it when
\* it is absent, and getSourcesHTML renders what getSources returns.
ListSources ==
    /\ Accepting
    /\ dbFile' = OpenedFile
    /\ inodes' = OpenedInodes
    /\ resp' = [Response("list", "ok") EXCEPT
                    !.items = getSources(OpenedInodes[OpenedFile]),
                    !.html = getSourcesHTML(getSources(OpenedInodes[OpenedFile]))]
    /\ nreq' = nreq + 1
    /\ UNCHANGED <<phase, ragApplication, uploads, task, now, chat>>

\* GET /health: databaseExists() opens the store file the same way and
\* counts its rows (the route does not await the count); isInitialized()
\* only reads ragApplication.
Health ==
    /\ Accepting
    /\ dbFile' = OpenedFile
    /\ inodes' = OpenedInodes
    /\ resp' = [Response("health", "ok") EXCEPT !.ctx = ragApplication # NoApp]
    /\ nreq' = nreq + 1
    /\ UNCHANGED <<phase, ragApplication, uploads, task, now, chat>>

\* Time passes: Date.now() is read for the name of a new upload and against
\* the mtime of the uploads.
Tick ==
    /\ now < MaxTime
    /\ now' = now + 1
    /\ UNCHANGED <<phase, ragApplication, dbFile, inodes, uploads, task, resp, nreq, chat>>

Next ==
    \/ InitializeApp
    \/ \E t \in Tasks, u \in UrlInputs : AddSource(t, u)
    \/ \E t \in Tasks, name \in FileNames, type \in ContentTypes, size \in FileSizes :
          AddFile(t, name, type, size)
    \/ \E t \in Tasks : Load(t)
    \/ \E t \in Tasks : Embed(t)
    \/ \E t \in Tasks : Unlink(t)
    \/ \E t \in Tasks : ClearStart(t)
    \/ \E t \in Tasks : ClearInit(t)
    \/ \E t \in Tasks, q \in Queries : Chat(t, q)
    \/ \E t \in Tasks : Retrieve(t)
    \/ \E t \in Tasks : Generate(t)
    \/ ListSources
    \/ Health

\* The server and its requests, at one instant of the clock
Spec == Init /\ [][Next]_vars

\* The same with time passing and the cleanup timer of initializeApp
NextTimed ==
    \/ Next
    \/ CleanupOldFiles
    \/ Tick

SpecTimed == Init /\ [][NextTimed]_vars

\* The server under every configuration of the chunking
SpecEnv == InitEnv /\ [][Next]_vars

\* ------------------------------------------------------------------ claims
Ingesting(t) == task[t].kind \in {"web", "file"} /\ task[t].pc \in {"load", "embed"}

\* the handler of slot t answers in this step
Answers(t) == task[t].pc # "idle" /\ task'[t].pc = "idle"

\* C1: for every source identifier at most one ingestion is in flight: no two
\* handlers are inside addLoader for the same source at the same time.
AtMostOneIngestionPerSource ==
    \A t \in Tasks, u \in Tasks :
        (t # u /\ Ingesting(t) /\ Ingesting(u)) => task[t].src # task[u].src

\* C2: ingestion is atomic: when an ingestion reports its failure, no record
\* that it wrote is left in a store.
FailedIngestionLeavesNothing ==
    [][\A t \in Tasks :
          (/\ Answers(t)
           /\ task[t].kind \in {"web", "file"}
           /\ resp'.result \in {"Failed to load web source", "Failed to load file"})
          => \A i \in DOMAIN inodes : \A r \in inodes[i].rows : r.by # t]_vars

\* C3: when clearSources reports success, the store that the application and
\* the source listing use is the same file and holds zero records.
ClearLeavesEmptyStore ==
    [][\A t \in Tasks :
          (Answers(t) /\ task[t].kind = "clear" /\ resp'.result = "ok")
          => /\ ragApplication' = dbFile'
             /\ inodes'[dbFile'].rows = {}]_vars

\* every chunk 1..n of the source is a record of the file
HoldsAll(file, src, n) ==
    \A k \in 1..n : \E r \in file.rows : r.source = src /\ r.idx = k

\* C4: clearSources is a barrier that no ingestion overlaps: an ingestion
\* that started before a clear and reports success after it has all of its
\* chunks in the store that is current when it reports.
ClearIsBarrier ==
    [][\A t \in Tasks :
          (Answers(t) /\ task[t].kind \in {"web", "file"} /\ resp'.result = "ok")
          => HoldsAll(inodes'[ragApplication'], task[t].src, task[t].n)]_vars

\* C5: when an add-file attempt whose upload was saved answers, the upload
\* is no longer in the uploads directory.
UploadRemovedAtEnd ==
    [][\A t \in Tasks :
          (Answers(t) /\ task[t].kind = "file") => task[t].src \notin uploads']_vars

\* a chat request whose text is empty or only whitespace
Blank(q) == trim(q) = <<>>

\* C6 as stated: every empty or whitespace-only question is answered with
\* the empty-query error of the route, and nothing is asked of the library.
BlankQuestionIsEmptyQuery ==
    [][\A t \in Tasks, q \in Queries :
          (Chat(t, q) /\ Blank(q))
          => resp'.result = "Query cannot be empty" /\ task'[t] = IdleTask]_vars

\* C6 as amended: a whitespace-only question is answered with the
\* empty-query error of the route and the empty string with the validation
\* error of the body schema; for neither is the store or the model invoked.
BlankQuestionRejected ==
    [][\A t \in Tasks, q \in Queries :
          (Chat(t, q) /\ Blank(q))
          => /\ resp'.kind = "chat"
             /\ resp'.result =
                    IF q = <<>> THEN "VALIDATION" ELSE "Query cannot be empty"
             /\ task'[t] = IdleTask
             /\ UNCHANGED <<dbFile, inodes>>]_vars

WhitespaceQuestionRejected ==
    resp.kind = "chat" /\ resp.result = "Query cannot be empty"

\* C7: a question answered from an empty store never gets the ordinary
\* answer: it gets a "no sources" notice or a failure.
EmptyStoreAnswerIsMarked ==
    (resp.kind = "chat" /\ ~resp.ctx) => resp.result # "answer"

\* C8: answering a question, listing the sources and the health check leave
\* the store file, its existence and its records as they were.
ReadStep ==
    \/ ListSources
    \/ Health
    \/ \E t \in Tasks : Retrieve(t) \/ Generate(t) \/ \E q \in Queries : Chat(t, q)
ReadsNeverMutate == [][ReadStep => UNCHANGED <<dbFile, inodes>>]_vars

\* the source identifiers with at least one record in the store file
StoredSources ==
    IF dbFile = NoFile THEN {} ELSE {r.source : r \in inodes[dbFile].rows}

\* C9: list sources answers, without an error, exactly the source identifiers
\* that have a record in the store file, each once; none when the store file
\* is empty or absent.
ListIsDistinctSources ==
    [][ListSources
        => /\ resp'.result = "ok"
           /\ {resp'.items[i].source : i \in 1..Len(resp'.items)} = StoredSources
           /\ Len(resp'.items) = Cardinality(StoredSources)
           /\ (resp'.html = <<"No sources added yet">>) <=> (StoredSources = {})]_vars

ListedOnceOfTwoRecords ==
    /\ resp.kind = "list"
    /\ Len(resp.items) = 1
    /\ dbFile # NoFile
    /\ Cardinality(inodes[dbFile].rows) = 2
    /\ StoredSources = {resp.items[1].source}

\* C10 as stated: an upload of a content type outside the allowed ones is
\* answered with the unsupported-type error and writes nothing.
UnsupportedTypeIsReported ==
    [][\A t \in Tasks, name \in FileNames, type \in ContentTypes, size \in FileSizes :
          (AddFile(t, name, type, size) /\ type \notin allowedTypes)
          => /\ resp'.result = "File type is not supported"
             /\ UNCHANGED <<inodes, uploads>>]_vars

\* C10 as amended: such an upload within the size limit is answered with the
\* unsupported-type error, a larger one with the size error; neither is the
\* load failure, and neither saves the file, starts an ingestion or writes a
\* record.
UnsupportedTypeRejected ==
    [][\A t \in Tasks, name \in FileNames, type \in ContentTypes, size \in FileSizes :
          (AddFile(t, name, type, size) /\ type \notin allowedTypes)
          => /\ resp'.kind = "file"
             /\ resp'.result =
                    IF size > maxFileSize
                    THEN "File size exceeds maximum allowed size"
                    ELSE "File type is not supported"
             /\ resp'.result # "Failed to load file"
             /\ task'[t] = IdleTask
             /\ UNCHANGED <<inodes, uploads>>]_vars

UnsupportedTypeSeen ==
    resp.kind = "file" /\ resp.result = "File type is not supported"

\* C11: a failure of the unlink of the upload never changes the outcome of
\* addFileSource: when the unlink fails, the handler answers success if the
\* load had succeeded and the load failure if the load had failed.
UnlinkFailureKeepsOutcome ==
    [][\A t \in Tasks :
          (Unlink(t) /\ UNCHANGED uploads)
          => /\ resp'.kind = "file"
             /\ resp'.result = IF task[t].ok THEN "ok" ELSE "Failed to load file"
             /\ task'[t] = IdleTask]_vars

\* the only request was an add-file, it was answered with success, and its
\* upload is still in the directory: its unlink had failed
SucceededWithUploadLeft ==
    /\ nreq = 1
    /\ \A t \in Tasks : task[t].pc = "idle"
    /\ resp.kind = "file" /\ resp.result = "ok"
    /\ uploads # {}

\* C12: a configuration whose chunk overlap is not strictly less than its
\* chunk size is rejected at startup: the server never serves a request under
\* it, and no web ingestion (the one whose loader is given chunkSize and
\* chunkOverlap) ever runs under it.
OverlapBelowChunkSize ==
    (\E t \in Tasks : Ingesting(t) /\ task[t].kind = "web")
    => /\ phase = "serving"
       /\ chat.chunkOverlap < chat.chunkSize

\* the handler of slot t calls ragApplication.addLoader in this step
CallsAddLoader(t) == task'[t].pc = "load" /\ task[t].pc # "load"

\* the handler of slot t calls ragApplication.query in this step
CallsQuery(t) == task'[t].pc = "retrieve" /\ task[t].pc # "retrieve"

\* the handler of slot t is inside addLoader or query and the call throws
CallFails(t) ==
    /\ \/ Load(t) /\ task'[t].pc # "embed"
       \/ Embed(t) /\ task'[t].written = task[t].written /\ task'[t].pc # "idle"
       \/ Embed(t) /\ task'[t].pc = "idle" /\ resp'.result # "ok"
       \/ Retrieve(t) /\ task'[t].pc # "generate"
       \/ Generate(t) /\ resp'.result # "answer"
    /\ task'[t] # task[t]

\* C13: nothing is retried: addLoader and query are called only by a request
\* that has just been accepted, so at most once per request, and when the
\* call throws the handler answers with the failure (for a file, after the
\* unlink of the upload) without calling again.
NoAutomaticRetry ==
    [][\A t \in Tasks :
          /\ (CallsAddLoader(t) \/ CallsQuery(t))
             => task[t].pc = "idle" /\ nreq' = nreq + 1
          /\ CallFails(t)
             => \/ /\ task'[t].pc = "idle"
                   /\ resp'.result \in {"Failed to load web source",
                                        "Failed to process query"}
                \/ /\ task'[t].pc = "unlink"
                   /\ task'[t].kind = "file" /\ ~task'[t].ok]_vars

\* the only request was an add-source; addLoader threw after it had stored a
\* chunk, and the failure was answered
FailedOnceAfterAWrite ==
    /\ nreq = 1
    /\ \A t \in Tasks : task[t].pc = "idle"
    /\ resp.result = "Failed to load web source"
    /\ \E i \in DOMAIN inodes : inodes[i].rows # {}

\* C14: the cleanup timer never deletes an upload whose ingestion is in
\* progress: every file that cleanupOldFiles removes is the file of no
\* handler that is inside addLoader, however long that call has been
\* running.
CleanupSparesIngestingUploads ==
    [][CleanupOldFiles
        => \A f \in uploads \ uploads' :
              ~\E t \in Tasks : Ingesting(t) /\ task[t].kind = "file" /\ task[t].src = f]_vars
====
